---- MODULE Spec2Model ----
(***************************************************************************)
(* Model of process_excel_data (streamlit_app.py): the transform that      *)
(* projects a DataFrame onto the selected columns, groups it, labels every *)
(* group and cuts it into CSV files of at most max_rows_per_file rows.     *)
(*                                                                         *)
(* A cell value is a record [kind, s, n]: a Python str (kind "str", s its  *)
(* characters), an integer (kind "int", n) or a missing cell (kind "nan"). *)
(* A DataFrame is a record [columns, index, data]: the column names, the   *)
(* row labels and one tuple of cell values per row.  A text (a label, a    *)
(* file name, a CSV field) is a sequence of one-character strings.         *)
(***************************************************************************)
EXTENDS Integers, Sequences, FiniteSets

VARIABLES
    df,                     \* argument: the DataFrame read from the sheet
    group_columns,          \* argument: the grouping column names
    selected_columns,       \* argument: the output column names
    max_rows_per_file,      \* argument
    progress_bar,           \* argument: TRUE when a progress bar is passed
    status_text,            \* argument: TRUE when a status text is passed
    pc,                     \* position in process_excel_data
    df_filtered,            \* line 21
    grouped,                \* lines 24-27: the groups, in iteration order
    csv_files,              \* line 29
    total_groups,           \* line 30
    total_files,            \* line 31
    total_expected_groups,  \* line 34
    group_idx,              \* line 37: enumerate() index of the current group
    calls,                  \* the calls made on progress_bar and status_text
    slept,                  \* seconds spent in time.sleep
    error,                  \* the exception that left the function, or "none"
    result,                 \* the returned tuple, or <<>> before the return
    key,                    \* label check: a group name
    label                   \* label check: its file-name label

vars == <<df, group_columns, selected_columns, max_rows_per_file, progress_bar,
          status_text, pc, df_filtered, grouped, csv_files, total_groups,
          total_files, total_expected_groups, group_idx, calls, slept, error,
          result, key, label>>

(***************************************************************************)
(* Bounds of the model.                                                    *)
(***************************************************************************)
MaxRows == 3        \* rows of the input table
MaxM == 2           \* largest max_rows_per_file tried
MaxLen == 2         \* characters of a key component in the label check

(***************************************************************************)
(* Cell values.                                                            *)
(***************************************************************************)
StrVal(s) == [kind |-> "str", s |-> s, n |-> 0]
IntVal(n) == [kind |-> "int", s |-> <<>>, n |-> n]
NaN == [kind |-> "nan", s |-> <<>>, n |-> 0]

\* pandas.isna on a cell
IsNa(v) == v.kind = "nan"

\* Code points of the characters the model uses (ord).
Ord ==
    [c \in {" ", "-", ".", "/", "7", "E", "W", "\\", "_", "a"} |->
        CASE c = " " -> 32 [] c = "-" -> 45 [] c = "." -> 46 [] c = "/" -> 47
          [] c = "7" -> 55 [] c = "E" -> 69 [] c = "W" -> 87 [] c = "\\" -> 92
          [] c = "_" -> 95 [] c = "a" -> 97]

Digits == <<"0", "1", "2", "3", "4", "5", "6", "7", "8", "9">>

RECURSIVE NatStr(_)
NatStr(n) ==
    IF n < 10 THEN <<Digits[n + 1]>>
    ELSE NatStr(n \div 10) \o <<Digits[(n % 10) + 1]>>

\* str(x) of a group-name component
Str(v) ==
    CASE v.kind = "str" -> v.s
      [] v.kind = "int" -> IF v.n < 0 THEN <<"-">> \o NatStr(0 - v.n) ELSE NatStr(v.n)
      [] v.kind = "nan" -> <<"n", "a", "n">>

\* str.replace(old, new) for a one-character old
Replace(s, old, new) == [i \in 1..Len(s) |-> IF s[i] = old THEN new ELSE s[i]]

Alnum == {"a", "E", "W", "n", "0", "1", "2", "3", "4", "5", "6", "7", "8", "9"}

\* str.isalnum on one character
IsAlnum(c) == c \in Alnum

RECURSIVE Join(_, _)
\* sep.join(parts)
Join(parts, sep) ==
    IF Len(parts) = 0 THEN <<>>
    ELSE IF Len(parts) = 1 THEN parts[1]
    ELSE parts[1] \o sep \o Join(Tail(parts), sep)

\* Python's floor division a // b, for b # 0
FloorDiv(a, b) == IF b > 0 THEN a \div b ELSE (0 - a) \div (0 - b)

Min(a, b) == IF a <= b THEN a ELSE b
Max(a, b) == IF a >= b THEN a ELSE b

\* Python's seq[start:stop]: a negative bound counts from the end
PySlice(seq, start, stop) ==
    LET n == Len(seq)
        lo == IF start < 0 THEN Max(n + start, 0) ELSE Min(start, n)
        hi == IF stop < 0 THEN Max(n + stop, 0) ELSE Min(stop, n)
    IN  SubSeq(seq, lo + 1, hi)

Range(f) == {f[i] : i \in DOMAIN f}

Seqs(S, n) == UNION {[1..k -> S] : k \in 0..n}

(***************************************************************************)
(* DataFrame operations used by process_excel_data.                        *)
(***************************************************************************)
HasColumns(d, cols) == \A j \in 1..Len(cols) : cols[j] \in Range(d.columns)

ColPos(d, c) == CHOOSE j \in 1..Len(d.columns) : d.columns[j] = c

\* d[cols].copy(), for cols all present in d
GetItem(d, cols) ==
    [columns |-> cols,
     index |-> d.index,
     data |-> [r \in 1..Len(d.data) |->
                 [j \in 1..Len(cols) |-> d.data[r][ColPos(d, cols[j])]]]]

\* d.iloc[positions]: the rows at the given 1-based positions, in that order
TakeRows(d, positions) ==
    [columns |-> d.columns,
     index |-> [i \in 1..Len(positions) |-> d.index[positions[i]]],
     data |-> [i \in 1..Len(positions) |-> d.data[positions[i]]]]

\* d.iloc[start:stop]
ILocSlice(d, start, stop) ==
    TakeRows(d, PySlice([i \in 1..Len(d.data) |-> i], start, stop))

\* the grouping-key values of row r
KeyOf(d, keys, r) == [j \in 1..Len(keys) |-> d.data[r][ColPos(d, keys[j])]]

RECURSIVE TextLess(_, _)
\* s < t for two Python strings (code-point order)
TextLess(s, t) ==
    IF Len(t) = 0 THEN FALSE
    ELSE IF Len(s) = 0 THEN TRUE
    ELSE IF s[1] # t[1] THEN Ord[s[1]] < Ord[t[1]]
    ELSE TextLess(Tail(s), Tail(t))

ValueLess(v, w) ==
    IF v.kind = "int" THEN v.n < w.n ELSE TextLess(v.s, w.s)

RECURSIVE KeyLess(_, _)
\* lexicographic order of two key tuples of the same columns
KeyLess(a, b) ==
    IF Len(a) = 0 THEN FALSE
    ELSE IF a[1] # b[1] THEN ValueLess(a[1], b[1])
    ELSE KeyLess(Tail(a), Tail(b))

RECURSIVE SortKeys(_)
SortKeys(S) ==
    IF S = {} THEN <<>>
    ELSE LET m == CHOOSE x \in S : \A y \in S \ {x} : KeyLess(x, y)
         IN  <<m>> \o SortKeys(S \ {m})

\* groupby drops a row whose key has a missing component (dropna=True, the default)
KeptByGroupBy(k) == \A j \in 1..Len(k) : ~IsNa(k[j])

\* d.groupby(keys), keys all present in d, as the sequence of (name, frame)
\* pairs its iteration yields: keys in sorted order (sort=True, the default),
\* the rows of a group in their order in d.  by_list is FALSE for
\* groupby(group_columns[0]), whose names are scalars, and TRUE for
\* groupby(group_columns), whose names are tuples.
GroupBy(d, keys, by_list) ==
    LET rows == 1..Len(d.data)
        names == SortKeys({KeyOf(d, keys, r) : r \in {q \in rows : KeptByGroupBy(KeyOf(d, keys, q))}})
    IN  [g \in 1..Len(names) |->
            [name |-> [is_tuple |-> by_list, values |-> names[g]],
             data |-> TakeRows(d, SelectSeq([i \in rows |-> i],
                                  LAMBDA r : KeyOf(d, keys, r) = names[g]))]]

\* one cell as DataFrame.to_csv writes it (a missing cell is written empty)
CsvField(v) == IF IsNa(v) THEN <<>> ELSE Str(v)

\* d.to_csv(index=False): the header line, then one line of fields per row
ToCsv(d) ==
    [header |-> d.columns,
     lines |-> [r \in 1..Len(d.data) |->
                  [j \in 1..Len(d.columns) |-> CsvField(d.data[r][j])]]]

(***************************************************************************)
(* Lines 46-53: the file-name label of a group name.                       *)
(***************************************************************************)
\* the label without the replacement of '/'
ComponentLabelKeepSlash(x) == Replace(Str(x), " ", "_")

\* str(x).replace(" ", "_").replace("/", "_")
ComponentLabel(x) == Replace(Replace(Str(x), " ", "_"), "/", "_")

\* line 53: keep the characters that are alphanumeric, '_' or '-'
KeepFilenameChars(s) == SelectSeq(s, LAMBDA c : IsAlnum(c) \/ c \in {"_", "-"})

GroupNameStr(group_name) ==
    KeepFilenameChars(
        IF group_name.is_tuple
        THEN Join([j \in 1..Len(group_name.values) |->
                     ComponentLabel(group_name.values[j])], <<"_">>)
        ELSE ComponentLabel(group_name.values[1]))

(***************************************************************************)
(* Lines 55-74: the files of one group.                                    *)
(***************************************************************************)
CsvSuffix == <<".", "c", "s", "v">>
PartInfix == <<"_", "p", "a", "r", "t", "_">>

\* the threshold test off by one
FitsOneFileStrict(num_rows, m) == num_rows < m

\* line 57
FitsOneFile(num_rows, m) == num_rows <= m

\* the chunk count rounded down
NumChunksFloor(num_rows, m) == FloorDiv(num_rows, m)

\* line 65, for m # 0
NumChunks(num_rows, m) == FloorDiv(num_rows + m - 1, m)

\* lines 67-69: chunk i (0-based) of the group
ChunkData(group_data, i, m) ==
    ILocSlice(group_data, i * m, Min((i + 1) * m, Len(group_data.data)))

\* lines 59-61
SingleFile(name_str, group_data) ==
    <<[filename |-> name_str \o CsvSuffix, csv_content |-> ToCsv(group_data)]>>

\* lines 66-73, for m # 0; range(num_chunks) is empty when num_chunks <= 0
ChunkFiles(name_str, group_data, m) ==
    [k \in 1..NumChunks(Len(group_data.data), m) |->
        [filename |-> name_str \o PartInfix \o NatStr(k) \o CsvSuffix,
         csv_content |-> ToCsv(ChunkData(group_data, k - 1, m))]]

(***************************************************************************)
(* The arguments tried.                                                    *)
(***************************************************************************)
TableColumns == <<"region", "val">>
RegionCells == {StrVal(<<"E">>), StrVal(<<"W", " ">>), NaN}
ValCells == {IntVal(1), IntVal(12)}

\* a table as pandas.read_excel returns it: a RangeIndex 0..n-1
Table(rows) ==
    [columns |-> TableColumns,
     index |-> [i \in 1..Len(rows) |-> i - 1],
     data |-> rows]

Tables == {Table(rows) : rows \in Seqs(RegionCells \X ValCells, MaxRows)}

GroupColumnChoices == {<<"region">>, <<"region", "val">>, <<"nonexistent">>}
SelectedColumnChoices == {<<"region", "val">>, <<"val">>, <<"val", "nonexistent">>}
MaxRowsPerFileChoices == (0 - 1)..MaxM

NoGroupName == [is_tuple |-> FALSE, values |-> <<>>]

(***************************************************************************)
(* process_excel_data, one action per step.                                *)
(***************************************************************************)
EngineLocals ==
    /\ df_filtered = Table(<<>>)
    /\ grouped = <<>>
    /\ csv_files = <<>>
    /\ total_groups = 0
    /\ total_files = 0
    /\ total_expected_groups = 0
    /\ group_idx = 0 - 1
    /\ calls = <<>>
    /\ slept = 0
    /\ error = "none"
    /\ result = <<>>

Init ==
    /\ df \in Tables
    /\ group_columns \in GroupColumnChoices
    /\ selected_columns \in SelectedColumnChoices
    /\ max_rows_per_file \in MaxRowsPerFileChoices
    /\ progress_bar \in BOOLEAN
    /\ status_text \in BOOLEAN
    /\ pc = "select"
    /\ EngineLocals
    /\ key = NoGroupName
    /\ label = <<>>

Raise(exception) ==
    /\ pc' = "raised"
    /\ error' = exception

\* d.reindex(columns=cols): an absent column comes out filled with NaN
Reindex(d, cols) ==
    [columns |-> cols,
     index |-> d.index,
     data |-> [r \in 1..Len(d.data) |->
                 [j \in 1..Len(cols) |->
                    IF cols[j] \in Range(d.columns)
                    THEN d.data[r][ColPos(d, cols[j])] ELSE NaN]]]

\* the projection that tolerates an absent column instead of raising
SelectColumnsReindex ==
    /\ pc = "select"
    /\ df_filtered' = Reindex(df, selected_columns)
    /\ pc' = "groupby"
    /\ UNCHANGED <<df, group_columns, selected_columns, max_rows_per_file,
                   progress_bar, status_text, grouped, csv_files, total_groups,
                   total_files, total_expected_groups, group_idx, calls, slept,
                   error, result, key, label>>

\* line 21: df_filtered = df[selected_columns].copy()
SelectColumns ==
    /\ pc = "select"
    /\ IF HasColumns(df, selected_columns)
       THEN /\ df_filtered' = GetItem(df, selected_columns)
            /\ pc' = "groupby"
            /\ UNCHANGED error
       ELSE /\ Raise("KeyError")
            /\ UNCHANGED df_filtered
    /\ UNCHANGED <<df, group_columns, selected_columns, max_rows_per_file,
                   progress_bar, status_text, grouped, csv_files, total_groups,
                   total_files, total_expected_groups, group_idx, calls, slept,
                   result, key, label>>

\* lines 24-34: the groupby on df_filtered, the empty results, len(grouped)
CreateGroups ==
    /\ pc = "groupby"
    /\ IF HasColumns(df_filtered, group_columns)
       THEN /\ grouped' = GroupBy(df_filtered, group_columns, Len(group_columns) # 1)
            /\ csv_files' = <<>>
            /\ total_groups' = 0
            /\ total_files' = 0
            /\ total_expected_groups' = Len(grouped')
            /\ pc' = "loop"
            /\ UNCHANGED error
       ELSE /\ Raise("KeyError")
            /\ UNCHANGED <<grouped, csv_files, total_groups, total_files,
                           total_expected_groups>>
    /\ UNCHANGED <<df, group_columns, selected_columns, max_rows_per_file,
                   progress_bar, status_text, df_filtered, group_idx, calls,
                   slept, result, key, label>>

StatusCall(msg, idx, total, name) ==
    [target |-> "status_text", msg |-> msg, idx |-> idx, total |-> total, name |-> name]

\* progress_bar.progress(idx / total)
ProgressCall(idx, total) ==
    [target |-> "progress_bar", msg |-> "progress", idx |-> idx, total |-> total,
     name |-> NoGroupName]

\* the progress call with the 0-based index
StartCallsZeroBased(count, idx, total, name) ==
    (IF status_text THEN <<StatusCall("Processing group", count, total, name)>> ELSE <<>>)
    \o (IF progress_bar THEN <<ProgressCall(idx, total)>> ELSE <<>>)

\* lines 41-44
StartCalls(count, idx, total, name) ==
    (IF status_text THEN <<StatusCall("Processing group", count, total, name)>> ELSE <<>>)
    \o (IF progress_bar THEN <<ProgressCall(idx + 1, total)>> ELSE <<>>)

\* lines 37-44: the loop takes the next group and reports it
NextGroup ==
    /\ pc = "loop"
    /\ total_groups < Len(grouped)
    /\ group_idx' = total_groups
    /\ total_groups' = total_groups + 1
    /\ calls' = calls \o StartCalls(total_groups', group_idx', total_expected_groups,
                                    grouped[group_idx' + 1].name)
    /\ pc' = "write"
    /\ UNCHANGED <<df, group_columns, selected_columns, max_rows_per_file,
                   progress_bar, status_text, df_filtered, grouped, csv_files,
                   total_files, total_expected_groups, slept, error, result,
                   key, label>>

\* lines 46-74: the label of the current group and its files
WriteGroup ==
    /\ pc = "write"
    /\ LET group_name == grouped[group_idx + 1].name
           group_data == grouped[group_idx + 1].data
           group_name_str == GroupNameStr(group_name)
           num_rows == Len(group_data.data)
       IN  IF FitsOneFile(num_rows, max_rows_per_file)
           THEN /\ csv_files' = csv_files \o SingleFile(group_name_str, group_data)
                /\ total_files' = total_files + 1
                /\ pc' = "finish"
                /\ UNCHANGED error
           ELSE IF max_rows_per_file = 0
           THEN /\ Raise("ZeroDivisionError")
                /\ UNCHANGED <<csv_files, total_files>>
           ELSE LET files == ChunkFiles(group_name_str, group_data, max_rows_per_file)
                IN  /\ csv_files' = csv_files \o files
                    /\ total_files' = total_files + Len(files)
                    /\ pc' = "finish"
                    /\ UNCHANGED error
    /\ UNCHANGED <<df, group_columns, selected_columns, max_rows_per_file,
                   progress_bar, status_text, df_filtered, grouped, total_groups,
                   total_expected_groups, group_idx, calls, slept, result, key,
                   label>>

SleepSeconds == 5

\* lines 76-81: the completion message and the delay
FinishGroup ==
    /\ pc = "finish"
    /\ calls' = calls \o
         (IF status_text
          THEN <<StatusCall("Completed group", total_groups, total_expected_groups,
                            grouped[group_idx + 1].name)>>
          ELSE <<>>)
    /\ slept' = slept + SleepSeconds
    /\ pc' = "loop"
    /\ UNCHANGED <<df, group_columns, selected_columns, max_rows_per_file,
                   progress_bar, status_text, df_filtered, grouped, csv_files,
                   total_groups, total_files, total_expected_groups, group_idx,
                   error, result, key, label>>

\* line 83, once the loop is exhausted
Return ==
    /\ pc = "loop"
    /\ total_groups = Len(grouped)
    /\ result' = <<csv_files, total_groups, total_files>>
    /\ pc' = "done"
    /\ UNCHANGED <<df, group_columns, selected_columns, max_rows_per_file,
                   progress_bar, status_text, df_filtered, grouped, csv_files,
                   total_groups, total_files, total_expected_groups, group_idx,
                   calls, slept, error, key, label>>

Next ==
    \/ SelectColumns
    \/ CreateGroups
    \/ NextGroup
    \/ WriteGroup
    \/ FinishGroup
    \/ Return

Spec == Init /\ [][Next]_vars

(***************************************************************************)
(* The label computation of lines 46-53 on its own: Init draws a group     *)
(* name, ComputeLabel applies the code to it.                              *)
(***************************************************************************)
LabelChars == {"a", " ", "/", "\\", "-", "_", "."}
KeyComponents ==
    {StrVal(s) : s \in Seqs(LabelChars, MaxLen)} \cup {IntVal(0 - 3), IntVal(12)}

GroupNames ==
    {[is_tuple |-> FALSE, values |-> <<x>>] : x \in KeyComponents}
    \cup {[is_tuple |-> TRUE, values |-> <<x, y>>] : x, y \in KeyComponents}

InitLabel ==
    /\ key \in GroupNames
    /\ label = <<>>
    /\ pc = "name"
    /\ df = Table(<<>>)
    /\ group_columns = <<"region">>
    /\ selected_columns = TableColumns
    /\ max_rows_per_file = 1
    /\ progress_bar = FALSE
    /\ status_text = FALSE
    /\ EngineLocals

\* lines 46-53
ComputeLabel ==
    /\ pc = "name"
    /\ label' = GroupNameStr(key)
    /\ pc' = "labelled"
    /\ UNCHANGED <<df, group_columns, selected_columns, max_rows_per_file,
                   progress_bar, status_text, df_filtered, grouped, csv_files,
                   total_groups, total_files, total_expected_groups, group_idx,
                   calls, slept, error, result, key>>

NextLabel == ComputeLabel

SpecLabel == InitLabel /\ [][NextLabel]_vars

(***************************************************************************)
(* Vocabulary of the properties, stated on the arguments (df,              *)
(* group_columns, selected_columns, max_rows_per_file) and not on the      *)
(* intermediate results.                                                   *)
(***************************************************************************)
TableRows == 1..Len(df.data)

\* the Grouping Key value combination of table row r
TableKey(r) == KeyOf(df, group_columns, r)

\* table row r projected onto the Output Column Set, as a line of CSV fields
ProjectedLine(r) ==
    [j \in 1..Len(selected_columns) |->
        CsvField(df.data[r][ColPos(df, selected_columns[j])])]

\* the table rows whose key is k, in table order, as positions
RowsWithKey(k) == SelectSeq([i \in TableRows |-> i], LAMBDA r : TableKey(r) = k)

\* the least k with k * m >= n, for m > 0
CeilDiv(n, m) == CHOOSE k \in 0..n : k * m >= n /\ (k = 0 \/ (k - 1) * m < n)

GroupSize(g) == Len(grouped[g].data.data)

RECURSIVE UnitsBefore(_)
\* the Export Units owed to the groups before group g
UnitsBefore(g) ==
    IF g <= 1 THEN 0
    ELSE UnitsBefore(g - 1) + CeilDiv(GroupSize(g - 1), max_rows_per_file)

\* the Export Units at the positions owed to group g
UnitsOf(g) == SubSeq(csv_files, UnitsBefore(g) + 1, UnitsBefore(g + 1))

RECURSIVE ConcatLines(_)
ConcatLines(units) ==
    IF Len(units) = 0 THEN <<>>
    ELSE units[1].csv_content.lines \o ConcatLines(Tail(units))

Count(seq, x) == Cardinality({i \in 1..Len(seq) : seq[i] = x})

\* every visited group has been written
GroupsWritten == pc \in {"finish", "loop", "done"}

MissingColumn ==
    ~HasColumns(df, group_columns) \/ ~HasColumns(df, selected_columns)

ProgressCalls == SelectSeq(calls, LAMBDA c : c.target = "progress_bar")

(***************************************************************************)
(* C1: on a normal return with a positive limit, every table row is in     *)
(* exactly one Group, and the rows of all Export Units together are the    *)
(* multiset of the table's (projected) rows.                               *)
(***************************************************************************)
C1_GroupsPartitionTable ==
    (pc = "done" /\ max_rows_per_file > 0) =>
        /\ \A r \in TableRows :
              Cardinality({g \in 1..Len(grouped) :
                              df.index[r] \in Range(grouped[g].data.index)}) = 1
        /\ Len(ConcatLines(csv_files)) = Len(df.data)
        /\ \A r \in TableRows :
              Count(ConcatLines(csv_files), ProjectedLine(r))
                = Cardinality({q \in TableRows : ProjectedLine(q) = ProjectedLine(r)})

(***************************************************************************)
(* C2: for a positive limit m, every written Group G has exactly           *)
(* ceil(|G| / m) Export Units, all but the last of m rows, none empty,     *)
(* whose rows in emission order are G's rows in table order.               *)
(***************************************************************************)
C2_ChunksOfGroup ==
    (GroupsWritten /\ max_rows_per_file > 0) =>
        /\ Len(csv_files) = UnitsBefore(total_groups + 1)
        /\ \A g \in 1..total_groups :
              LET units == UnitsOf(g)
                  rows == RowsWithKey(grouped[g].name.values)
              IN  /\ Len(units) = CeilDiv(Len(rows), max_rows_per_file)
                  /\ \A i \in 1..(Len(units) - 1) :
                        Len(units[i].csv_content.lines) = max_rows_per_file
                  /\ \A i \in 1..Len(units) : Len(units[i].csv_content.lines) >= 1
                  /\ ConcatLines(units) = [i \in 1..Len(rows) |-> ProjectedLine(rows[i])]

\* a group of more than m rows, not a multiple of m, has been split
C2_Witness ==
    /\ pc = "done"
    /\ max_rows_per_file = 2
    /\ \E g \in 1..Len(grouped) : GroupSize(g) = 3

(***************************************************************************)
(* C3: for a positive limit m, a written Group of at most m rows has one   *)
(* Export Unit named "{label}.csv"; a Group of more than m rows has units  *)
(* named "{label}_part_{i}.csv", i = 1..k in emission order; a Group of    *)
(* m + 1 rows has two units, of m rows and of 1 row.                       *)
(***************************************************************************)
C3_NamesFollowThreshold ==
    (GroupsWritten /\ max_rows_per_file > 0) =>
        \A g \in 1..total_groups :
            LET units == UnitsOf(g)
                name_str == GroupNameStr(grouped[g].name)
                n == Len(RowsWithKey(grouped[g].name.values))
            IN  /\ n <= max_rows_per_file =>
                      /\ Len(units) = 1
                      /\ units[1].filename = name_str \o <<".", "c", "s", "v">>
                /\ n > max_rows_per_file =>
                      /\ Len(units) >= 2
                      /\ \A i \in 1..Len(units) :
                            units[i].filename
                              = name_str \o <<"_", "p", "a", "r", "t", "_">>
                                  \o NatStr(i) \o <<".", "c", "s", "v">>
                /\ n = max_rows_per_file + 1 =>
                      [i \in 1..Len(units) |-> Len(units[i].csv_content.lines)]
                        = <<max_rows_per_file, 1>>

\* one Group of exactly m rows and one of m + 1 rows have been written
C3_Witness ==
    /\ pc = "done"
    /\ \E g \in 1..Len(grouped) : GroupSize(g) = max_rows_per_file
    /\ \E g \in 1..Len(grouped) : GroupSize(g) = max_rows_per_file + 1

(***************************************************************************)
(* C4: with max_rows_per_file <= 0 the call never returns normally, and    *)
(* when it raises, no Group has been visited, no observer called and no    *)
(* Export Unit produced.                                                   *)
(***************************************************************************)
C4_NonPositiveLimitRejected ==
    max_rows_per_file <= 0 =>
        /\ pc # "done"
        /\ pc = "raised" => (total_groups = 0 /\ calls = <<>> /\ csv_files = <<>>)

(***************************************************************************)
(* C5: when a grouping or output column is absent from the table, the call *)
(* raises before the loop: no Group is visited, no observer is called, no  *)
(* Export Unit is produced and nothing is returned.                        *)
(***************************************************************************)
C5_MissingColumnRaisesBeforeLoop ==
    MissingColumn =>
        /\ pc \in {"select", "groupby", "raised"}
        /\ pc = "groupby" => ~HasColumns(df_filtered, group_columns)
        /\ pc = "raised" => error = "KeyError"
        /\ grouped = <<>>
        /\ total_groups = 0
        /\ calls = <<>>
        /\ csv_files = <<>>
        /\ result = <<>>

\* on a table with rows, the projection has passed and the groupby has raised
\* for an absent grouping column
C5_Witness ==
    /\ pc = "raised"
    /\ error = "KeyError"
    /\ ~HasColumns(df, group_columns)
    /\ HasColumns(df, selected_columns)
    /\ Len(df_filtered.data) > 0

(***************************************************************************)
(* C6: on a normal return, the rows with a missing Grouping Key value are  *)
(* a Group of their own: visited, counted and written to an Export Unit.   *)
(***************************************************************************)
C6_NullKeyFormsGroup ==
    (pc = "done" /\ max_rows_per_file > 0) =>
        \A r \in TableRows :
            (\E j \in 1..Len(group_columns) : IsNa(TableKey(r)[j])) =>
                /\ \E g \in 1..total_groups : grouped[g].name.values = TableKey(r)
                /\ Count(ConcatLines(csv_files), ProjectedLine(r)) >= 1

(***************************************************************************)
(* C7: with every grouping and output column present in the table and a    *)
(* positive limit, the call does not raise, whether or not the grouping    *)
(* columns are among the output columns.                                   *)
(***************************************************************************)
C7_GroupingIndependentOfProjection ==
    (~MissingColumn /\ max_rows_per_file > 0) => pc # "raised"

(***************************************************************************)
(* C8: on a normal return with a positive limit, the returned Export Unit  *)
(* count is the length of the returned sequence and the sum over the       *)
(* Groups of ceil(|G| / m), and the returned Group count is the number of  *)
(* distinct Grouping Key value combinations of the table.                  *)
(***************************************************************************)
C8_ReturnedCounts ==
    (pc = "done" /\ max_rows_per_file > 0) =>
        /\ result[3] = Len(result[1])
        /\ result[3] = UnitsBefore(Len(grouped) + 1)
        /\ result[2] = Cardinality({TableKey(r) : r \in TableRows})

RECURSIVE SafeText(_, _)
\* character by character: those of toUnderscore become '_', the other
\* file-name characters stay, the rest goes
SafeText(s, toUnderscore) ==
    IF Len(s) = 0 THEN <<>>
    ELSE (IF s[1] \in toUnderscore THEN <<"_">>
          ELSE IF IsAlnum(s[1]) \/ s[1] \in {"_", "-"} THEN <<s[1]>>
          ELSE <<>>) \o SafeText(Tail(s), toUnderscore)

ExpectedLabel(name, toUnderscore) ==
    Join([j \in 1..Len(name.values) |-> SafeText(Str(name.values[j]), toUnderscore)],
         <<"_">>)

C10_LabelSanitized ==
    pc = "labelled" =>
        /\ label = ExpectedLabel(key, {" ", "/"})
        /\ \A i \in 1..Len(label) : IsAlnum(label[i]) \/ label[i] \in {"_", "-"}

\* the claim as made: every '\' becomes '_' too
C10_AsClaimed ==
    pc = "labelled" =>
        /\ label = ExpectedLabel(key, {" ", "/", "\\"})
        /\ \A i \in 1..Len(label) : IsAlnum(label[i]) \/ label[i] \in {"_", "-"}

\* a composite key with a space, a '/' and a '\' has been labelled
C10_Witness ==
    /\ pc = "labelled"
    /\ key.is_tuple
    /\ \A c \in {" ", "/", "\\"} :
          \E j \in 1..Len(key.values) : c \in Range(Str(key.values[j]))
    /\ Len(label) >= 3
====
